---- MODULE Spec2Model ----
(***************************************************************************)
(* Availability engine of the Syncify scheduling bot (calendar helpers:    *)
(* checkTimeAgainstAvailability, findGroupAvailability, generateTimeSlots, *)
(* isTimeSlotAvailable) and the command flows /group-schedule and          *)
(* /schedule with their process-wide maps of pending sessions.             *)
(*                                                                         *)
(* Time model.  An instant is an integer number of minutes since           *)
(* 1970-01-01T00:00Z (what an ISO string / Date / moment denotes).  A      *)
(* calendar date "YYYY-MM-DD" is its day number since 1970-01-01.  A       *)
(* timezone is modelled by its UTC offset in minutes (fixed over the few   *)
(* days a run looks at), so local wall clock = instant + offset.           *)
(* A wall-clock string "h:mm A" is the tuple <<h, mm, "AM"|"PM">>; the     *)
(* empty tuple is a missing (undefined / empty) string.                    *)
(***************************************************************************)
EXTENDS Integers, Sequences, FiniteSets, TLC

VARIABLES
  localOffset,      \* UTC offset of the process's local time (moment(...) without tz)
  users,            \* table users: user_id -> timezone (UTC offset)
  calendars,        \* table calendars, in row order: [id, user_id, availability]
  meetings,         \* table meetings: set of [id, calendar_id, start_time, end_time, status]
  args,             \* arguments of the findGroupAvailability call in progress
  pc,               \* where that call stands
  fetched,          \* rows the calendars query returned to it
  availableSlots,   \* what it returned
  call,             \* last direct application of a helper: arguments and result
  previous,         \* outcome of the call made before the one in progress, same arguments
  pendingGroupSessions,   \* global.pendingGroupSessions: user id -> session object (0: no entry)
  sessionData,      \* the session objects created by the /group-schedule flows, by flow
  pendingMeetings,  \* global.pendingMeetings: user id -> meeting object (0: no entry)
  meetingData,      \* the meetingData objects created by the /schedule flows, by flow
  flows,            \* the command flows started so far: host, stage, closure variables
  minute,           \* the minute the process's clock shows
  runs,             \* the executions of checkUpcomingMeetings the cron job started
  reminders         \* the reminder DMs delivered: [id of the meeting, run that sent it]

\* the state of the command flows
flowVars == <<pendingGroupSessions, sessionData, pendingMeetings, meetingData, flows>>

\* the state of the reminder system, but for the table meetings
reminderVars == <<minute, runs, reminders>>

\* the state of the availability engine and its callers, but for `call`
engineVars == <<localOffset, users, calendars, meetings, args, pc, fetched, availableSlots,
                previous, reminderVars>>

vars == <<localOffset, users, calendars, meetings, args, pc, fetched, availableSlots, call,
          previous, flowVars, reminderVars>>

-----------------------------------------------------------------------------
(* Values of the JSON availability document                                *)

Null == [null |-> TRUE]             \* calendars.availability IS NULL
Undefined == [undefined |-> TRUE]   \* a key the document does not carry
NoTime == <<>>                      \* a start/end that is missing or ""

NoCall == [pc |-> "none"]           \* no call was made before this one

Window(available, start, end) == [available |-> available, start |-> start, end |-> end]

-----------------------------------------------------------------------------
(* moment helpers                                                          *)

\* moment(t).tz(zone).format('YYYY-MM-DD'): the local calendar date of instant t
LocalDate(t, zone) == (t + zone) \div 1440

\* moment(t).tz(zone).day(): 0 = Sunday .. 6 = Saturday (day 0 was a Thursday)
LocalDay(t, zone) == (LocalDate(t, zone) + 4) % 7

\* A string that is not of the form "h:mm AM/PM" is either text without a digit
\* (<<"soon">>: one component, the text) or carries numbers out of range
\* (<<25, 0, "PM">>).  moment parses forgivingly (no strict flag is passed): the
\* tokens h, mm, A that match nothing are skipped and their fields default to 0,
\* so text without a digit reads as 00:00; numbers out of range make the moment
\* invalid.

\* the hour of 'h ... A': 12 AM is hour 0, PM adds 12 to an hour below 12
Hour(str) ==
  IF str[3] = "PM" /\ str[1] < 12 THEN str[1] + 12
  ELSE IF str[3] = "AM" /\ str[1] = 12 THEN 0
  ELSE str[1]

\* moment.tz(...).isValid(): no field overflows; hour 24 with minute 0 is
\* accepted and read as 00:00 of the next day
ValidTime(str) ==
  \/ Len(str) < 3
  \/ (Hour(str) \in 0..23 /\ str[2] \in 0..59)
  \/ (Hour(str) = 24 /\ str[2] = 0)

\* the 'h:mm A' part of moment.tz(str, 'YYYY-MM-DD h:mm A', zone): minutes after
\* local midnight
ParseTime(str) == IF Len(str) < 3 THEN 0 ELSE Hour(str) * 60 + str[2]

\* moment.tz(`${date} ${str}`, 'YYYY-MM-DD h:mm A', zone): the instant of that
\* wall-clock time on that local date
LocalToInstant(date, str, zone) == date * 1440 + ParseTime(str) - zone

-----------------------------------------------------------------------------
(* checkTimeAgainstAvailability                                            *)

\* Variants of checkTimeAgainstAvailability with one slip each, used to test
\* that the properties below depend on it.
\* (a) the weekdays window is consulted on every day
checkTime_AlwaysWeekdays(startTime, endTime, availability, timezone) ==
  IF availability = Null
  THEN FALSE
  ELSE
    LET availSettings == availability.weekdays
    IN  IF availSettings = Undefined \/ availSettings.start = NoTime
           \/ availSettings.end = NoTime
        THEN FALSE
        ELSE
          LET date == LocalDate(startTime, timezone)
              availStart == LocalToInstant(date, availSettings.start, timezone)
              availEnd == LocalToInstant(date, availSettings.end, timezone)
          IN  /\ ValidTime(availSettings.start) /\ ValidTime(availSettings.end)
              /\ startTime >= availStart /\ endTime <= availEnd

\* (b) isAfter / isBefore in place of isSameOrAfter / isSameOrBefore
checkTime_Strict(startTime, endTime, availability, timezone) ==
  IF availability = Null
  THEN FALSE
  ELSE
    LET isWeekend == LocalDay(startTime, timezone) \in {0, 6}
        availSettings == IF isWeekend THEN availability.weekends ELSE availability.weekdays
    IN  IF isWeekend /\ (availSettings = Undefined \/ ~availSettings.available)
        THEN FALSE
        ELSE IF availSettings = Undefined \/ availSettings.start = NoTime
                  \/ availSettings.end = NoTime
        THEN FALSE
        ELSE
          LET date == LocalDate(startTime, timezone)
              availStart == LocalToInstant(date, availSettings.start, timezone)
              availEnd == LocalToInstant(date, availSettings.end, timezone)
          IN  /\ ValidTime(availSettings.start) /\ ValidTime(availSettings.end)
              /\ startTime > availStart /\ endTime < availEnd

\* (c) the day of the week taken in the process's timezone (moment(startTime).day())
checkTime_ProcessDay(startTime, endTime, availability, timezone) ==
  IF availability = Null
  THEN FALSE
  ELSE
    LET isWeekend == LocalDay(startTime, localOffset) \in {0, 6}
        availSettings == IF isWeekend THEN availability.weekends ELSE availability.weekdays
    IN  IF isWeekend /\ (availSettings = Undefined \/ ~availSettings.available)
        THEN FALSE
        ELSE IF availSettings = Undefined \/ availSettings.start = NoTime
                  \/ availSettings.end = NoTime
        THEN FALSE
        ELSE
          LET date == LocalDate(startTime, timezone)
              availStart == LocalToInstant(date, availSettings.start, timezone)
              availEnd == LocalToInstant(date, availSettings.end, timezone)
          IN  /\ ValidTime(availSettings.start) /\ ValidTime(availSettings.end)
              /\ startTime >= availStart /\ endTime <= availEnd

\* (d) the weekend test without its `available` flag
checkTime_IgnoreWeekendFlag(startTime, endTime, availability, timezone) ==
  IF availability = Null
  THEN FALSE
  ELSE
    LET isWeekend == LocalDay(startTime, timezone) \in {0, 6}
        availSettings == IF isWeekend THEN availability.weekends ELSE availability.weekdays
    IN  IF availSettings = Undefined \/ availSettings.start = NoTime
           \/ availSettings.end = NoTime
        THEN FALSE
        ELSE
          LET date == LocalDate(startTime, timezone)
              availStart == LocalToInstant(date, availSettings.start, timezone)
              availEnd == LocalToInstant(date, availSettings.end, timezone)
          IN  /\ ValidTime(availSettings.start) /\ ValidTime(availSettings.end)
              /\ startTime >= availStart /\ endTime <= availEnd

\* (e) the window's strings read in UTC (moment.utc) instead of the owner's zone
checkTime_WindowInUTC(startTime, endTime, availability, timezone) ==
  IF availability = Null
  THEN FALSE
  ELSE
    LET isWeekend == LocalDay(startTime, timezone) \in {0, 6}
        availSettings == IF isWeekend THEN availability.weekends ELSE availability.weekdays
    IN  IF isWeekend /\ (availSettings = Undefined \/ ~availSettings.available)
        THEN FALSE
        ELSE IF availSettings = Undefined \/ availSettings.start = NoTime
                  \/ availSettings.end = NoTime
        THEN FALSE
        ELSE
          LET date == LocalDate(startTime, timezone)
              availStart == LocalToInstant(date, availSettings.start, 0)
              availEnd == LocalToInstant(date, availSettings.end, 0)
          IN  /\ ValidTime(availSettings.start) /\ ValidTime(availSettings.end)
              /\ startTime >= availStart /\ endTime <= availEnd

\* isSameOrAfter / isSameOrBefore are false when their argument is an invalid
\* moment
checkTimeAgainstAvailability(startTime, endTime, availability, timezone) ==
  IF availability = Null
  THEN FALSE
  ELSE
    LET isWeekend == LocalDay(startTime, timezone) \in {0, 6}
        availSettings == IF isWeekend THEN availability.weekends ELSE availability.weekdays
    IN  IF isWeekend /\ (availSettings = Undefined \/ ~availSettings.available)
        THEN FALSE
        ELSE IF availSettings = Undefined \/ availSettings.start = NoTime
                  \/ availSettings.end = NoTime
        THEN FALSE
        ELSE
          LET date == LocalDate(startTime, timezone)
              availStart == LocalToInstant(date, availSettings.start, timezone)
              availEnd == LocalToInstant(date, availSettings.end, timezone)
          IN  /\ ValidTime(availSettings.start) /\ ValidTime(availSettings.end)
              /\ startTime >= availStart /\ endTime <= availEnd

-----------------------------------------------------------------------------
(* generateTimeSlots                                                       *)

interval == 30        \* const interval = 30
dayStartHour == 9     \* moment(start).hour(9)
dayEndHour == 17      \* moment(start).hour(17)

\* one slot object; t is local wall clock in minutes since local 1970-01-01 00:00
Slot(t, duration) ==
  [start |-> t - localOffset,
   end |-> t + duration - localOffset,
   formatted |-> [date |-> t \div 1440, time |-> t % 1440, day |-> ((t \div 1440) + 4) % 7]]

\* the inner while loop: slotStart.add(interval) mutates slotStart BEFORE the
\* comparison with dayEnd, and the body then uses the advanced value
RECURSIVE InnerLoop(_, _, _, _)
InnerLoop(slotStart, dayEnd, duration, slots) ==
  LET advanced == slotStart + interval
  IN  IF advanced <= dayEnd
      THEN InnerLoop(advanced, dayEnd, duration,
                     IF advanced + duration <= dayEnd
                     THEN Append(slots, Slot(advanced, duration))
                     ELSE slots)
      ELSE slots

\* Variant of the outer loop whose days end at 18:00 (hour(18) for dayEnd)
RECURSIVE OuterLoop_LateDayEnd(_, _, _, _)
OuterLoop_LateDayEnd(start, end, duration, slots) ==
  IF start <= end
  THEN LET dayStart == start + dayStartHour * 60
           dayEnd == start + (dayEndHour + 1) * 60
       IN  OuterLoop_LateDayEnd(start + 1440, end, duration,
                                InnerLoop(dayStart, dayEnd, duration, slots))
  ELSE slots

\* the outer while loop over local days; start is a local midnight, end the last
\* minute of endDate (endOf('day'))
RECURSIVE OuterLoop(_, _, _, _)
OuterLoop(start, end, duration, slots) ==
  IF start <= end
  THEN LET dayStart == start + dayStartHour * 60
           dayEnd == start + dayEndHour * 60
       IN  OuterLoop(start + 1440, end, duration,
                     InnerLoop(dayStart, dayEnd, duration, slots))
  ELSE slots

generateTimeSlots(startDate, endDate, duration) ==
  OuterLoop(startDate * 1440, endDate * 1440 + 1439, duration, <<>>)

-----------------------------------------------------------------------------
(* findGroupAvailability                                                   *)

\* Variants of the conflict predicate with one slip each.
\* (a) <= and >= in the overlap test
MeetingConflicts_Touching(slot, meeting) ==
  \/ (slot.start <= meeting.end_time /\ slot.end >= meeting.start_time)
  \/ slot.start = meeting.start_time
  \/ slot.end = meeting.end_time

\* (b) >= in the second comparison of the overlap test
MeetingConflicts_EndTouching(slot, meeting) ==
  \/ (slot.start < meeting.end_time /\ slot.end >= meeting.start_time)
  \/ slot.start = meeting.start_time
  \/ slot.end = meeting.end_time

\* (c) <= in the first comparison of the overlap test
MeetingConflicts_StartTouching(slot, meeting) ==
  \/ (slot.start <= meeting.end_time /\ slot.end > meeting.start_time)
  \/ slot.start = meeting.start_time
  \/ slot.end = meeting.end_time

\* the conflict predicate of meeting.some(...): Date objects compare as instants
MeetingConflicts(slot, meeting) ==
  \/ (slot.start < meeting.end_time /\ slot.end > meeting.start_time)
  \/ slot.start = meeting.start_time
  \/ slot.end = meeting.end_time

\* Variant of the calendars query without its .in('users.user_id', userIds) filter
CalendarsQuery_Unfiltered(userIds) ==
  [i \in 1..Len(calendars) |->
     [id |-> calendars[i].id,
      availability |-> calendars[i].availability,
      users |-> [user_id |-> calendars[i].user_id,
                 timezone |-> users[calendars[i].user_id]]]]

\* supabase.from('calendars').select('*, users!inner(*)').in('users.user_id', userIds):
\* the calendar rows of the requested users, each with its user row embedded
CalendarsQuery(userIds) ==
  LET Requested(cal) == cal.user_id \in userIds
      rows == SelectSeq(calendars, Requested)
  IN  [i \in 1..Len(rows) |->
         [id |-> rows[i].id,
          availability |-> rows[i].availability,
          users |-> [user_id |-> rows[i].user_id, timezone |-> users[rows[i].user_id]]]]

\* Variant of the meetings query without its .eq('status', 'confirmed') filter
MeetingsQuery_AnyStatus(calendarIds, startDate, endDate) ==
  {m \in meetings :
     /\ m.calendar_id \in calendarIds
     /\ m.end_time >= startDate * 1440
     /\ m.start_time <= endDate * 1440 + 1439}

\* supabase.from('meetings').select('*').in('calendar_id', calendarIds)
\*   .gte('end_time', `${startDate}T00:00:00Z`).lte('start_time', `${endDate}T23:59:59Z`)
\*   .eq('status', 'confirmed')
MeetingsQuery(calendarIds, startDate, endDate) ==
  {m \in meetings :
     /\ m.calendar_id \in calendarIds
     /\ m.end_time >= startDate * 1440
     /\ m.start_time <= endDate * 1440 + 1439
     /\ m.status = "confirmed"}

\* Variant of LastRowOf that keeps the first row of the user, instead of the
\* last, when the call is a repeated one
LastRowOf_FirstOnRepeat(rows, userId) ==
  LET idx == {i \in 1..Len(rows) : rows[i].users.user_id = userId}
  IN  IF idx = {} THEN Undefined
      ELSE IF previous = NoCall
      THEN rows[CHOOSE i \in idx : \A j \in idx : j <= i]
      ELSE rows[CHOOSE i \in idx : \A j \in idx : i <= j]

\* the row a calendars.forEach(cal => table[cal.users.user_id] = ...) leaves in
\* the table for userId: each later row of the same user overwrites the earlier
LastRowOf(rows, userId) ==
  LET idx == {i \in 1..Len(rows) : rows[i].users.user_id = userId}
  IN  IF idx = {} THEN Undefined ELSE rows[CHOOSE i \in idx : \A j \in idx : j <= i]

\* meetingsByUser[userId] || []
MeetingsByUser(rows, fetchedMeetings, userId) ==
  LET cal == LastRowOf(rows, userId)
  IN  IF cal = Undefined THEN {} ELSE {m \in fetchedMeetings : m.calendar_id = cal.id}

\* Variant of the callback that passes a user who has no row
UserIsFree_SkipMissing(slot, rows, fetchedMeetings, userId) ==
  LET cal == LastRowOf(rows, userId)
  IN  IF cal = Undefined
      THEN TRUE
      ELSE /\ checkTimeAgainstAvailability(slot.start, slot.end,
                                           cal.availability, cal.users.timezone)
           /\ ~\E meeting \in MeetingsByUser(rows, fetchedMeetings, userId) :
                 MeetingConflicts(slot, meeting)

\* the callback of userIds.every(...) for one slot and one user
UserIsFree(slot, rows, fetchedMeetings, userId) ==
  LET cal == LastRowOf(rows, userId)
  IN  IF cal = Undefined
      THEN FALSE
      ELSE /\ checkTimeAgainstAvailability(slot.start, slot.end,
                                           cal.availability, cal.users.timezone)
           /\ ~\E meeting \in MeetingsByUser(rows, fetchedMeetings, userId) :
                 MeetingConflicts(slot, meeting)

\* Variant of the filter that returns the retained slots latest first
FilterSlots_Reversed(timeSlots, rows, fetchedMeetings, userIds) ==
  LET Keep(slot) == \A userId \in userIds : UserIsFree(slot, rows, fetchedMeetings, userId)
      kept == SelectSeq(timeSlots, Keep)
  IN  [i \in 1..Len(kept) |-> kept[Len(kept) + 1 - i]]

\* timeSlots.filter(slot => userIds.every(...))
FilterSlots(timeSlots, rows, fetchedMeetings, userIds) ==
  LET Keep(slot) == \A userId \in userIds : UserIsFree(slot, rows, fetchedMeetings, userId)
  IN  SelectSeq(timeSlots, Keep)

-----------------------------------------------------------------------------
(* Inputs                                                                  *)

MaxMeetings == 1      \* rows of table meetings

Users == {"u1", "u2"}
StoreDates == {1, 2}  \* Fri 1970-01-02, Sat 1970-01-03
\* 'cancelled' is to the code what 'tentative' is: not 'confirmed'
Statuses == {"confirmed", "tentative"}

\* process timezones and user timezones of the store snapshots:
\* America/Los_Angeles and UTC (or Europe/London), in winter
LocalOffsets == {-480, 0}
Zones == {-480, 0}

Business ==
  [weekdays |-> Window(FALSE, <<9, 0, "AM">>, <<5, 0, "PM">>),
   weekends |-> Window(FALSE, <<9, 0, "AM">>, <<5, 0, "PM">>)]
Weekdays ==
  [weekdays |-> Window(FALSE, <<12, 0, "AM">>, <<11, 59, "PM">>),
   weekends |-> Window(FALSE, NoTime, NoTime)]
AllWeek ==
  [weekdays |-> Window(FALSE, <<12, 0, "AM">>, <<11, 59, "PM">>),
   weekends |-> Window(TRUE, <<12, 0, "AM">>, <<11, 59, "PM">>)]

StorePatterns == {Business, Weekdays, AllWeek}
StoreDurations == {30}

\* Fri 10:00-11:00Z, and Sat 00:00-01:00Z (Fri 16:00-17:00 in Los Angeles)
MeetingTimes == {<<1 * 1440 + 600, 1 * 1440 + 660>>, <<2 * 1440, 2 * 1440 + 60>>}

\* the calendars table, at most two rows: the rows of u1, then those of u2 (only
\* the order among the rows of one user matters to the code)
RowsOf(u) == UNION {[1..n -> {u} \X StorePatterns] : n \in 0..2}
CalendarTables ==
  {t \in {t1 \o t2 : t1 \in RowsOf("u1"), t2 \in RowsOf("u2")} : Len(t) <= 2}

MeetingRows(n) ==
  {[calendar_id |-> c, start_time |-> t[1], end_time |-> t[2], status |-> s] :
     c \in 1..n, t \in MeetingTimes, s \in Statuses}

Idle == [fn |-> "none"]

\* the cron job has not fired yet
NoReminders ==
  /\ minute = 0
  /\ runs = <<>>
  /\ reminders = {}

\* no command flow was started: both global maps are empty
NoFlows ==
  /\ pendingGroupSessions = [u \in Users |-> 0]
  /\ sessionData = <<>>
  /\ pendingMeetings = [u \in Users |-> 0]
  /\ meetingData = <<>>
  /\ flows = <<>>

-----------------------------------------------------------------------------
(* State machine of one findGroupAvailability call over a store snapshot   *)

Init ==
  /\ localOffset \in LocalOffsets
  /\ users \in [Users -> Zones]
  /\ \E t \in CalendarTables :
       calendars = [i \in 1..Len(t) |->
                      [id |-> i, user_id |-> t[i][1], availability |-> t[i][2]]]
  /\ meetings \in {ms \in SUBSET MeetingRows(Len(calendars)) : Cardinality(ms) <= MaxMeetings}
  /\ args \in [userIds : SUBSET Users, startDate : StoreDates, endDate : StoreDates,
               duration : StoreDurations]
  /\ pc = "calendarsQuery"
  /\ fetched = <<>>
  /\ availableSlots = <<>>
  /\ call = Idle
  /\ previous = NoCall
  /\ NoFlows
  /\ NoReminders

\* the first await resolves: error, no rows, or the rows
CalendarsQueryDone ==
  /\ pc = "calendarsQuery"
  /\ \E error \in BOOLEAN :
       LET rows == CalendarsQuery(args.userIds)
       IN  IF error \/ Len(rows) = 0
           THEN /\ pc' = "returned"
                /\ availableSlots' = <<>>
                /\ fetched' = fetched
           ELSE /\ pc' = "meetingsQuery"
                /\ fetched' = rows
                /\ availableSlots' = availableSlots
  /\ UNCHANGED <<reminderVars, localOffset, users, calendars, meetings, args, call, previous, flowVars>>

\* the second await resolves; on an error data is null and meetingsError (a key
\* the response does not carry) is undefined, so meetings.filter throws
MeetingsQueryDone ==
  /\ pc = "meetingsQuery"
  /\ \E error \in BOOLEAN :
       IF error
       THEN /\ pc' = "threw"
            /\ availableSlots' = availableSlots
       ELSE LET calendarIds == {fetched[i].id : i \in 1..Len(fetched)}
                fetchedMeetings == MeetingsQuery(calendarIds, args.startDate, args.endDate)
                timeSlots == generateTimeSlots(args.startDate, args.endDate, args.duration)
            IN  /\ availableSlots' = FilterSlots(timeSlots, fetched, fetchedMeetings,
                                                 args.userIds)
                /\ pc' = "returned"
  /\ UNCHANGED <<reminderVars, localOffset, users, calendars, meetings, args, fetched, call, previous, flowVars>>

Next == CalendarsQueryDone \/ MeetingsQueryDone

Spec == Init /\ [][Next]_vars

-----------------------------------------------------------------------------
(* Direct applications of the helpers, on inputs of their own              *)

MaxDate == 2          \* dates 1 (Fri 1970-01-02), 2 (Sat), 3 (Sun), ... MaxDate
Dates == 1..MaxDate

\* process and user timezones: Los Angeles, UTC, Sydney; Honolulu, New York,
\* London, Tokyo
FnOffsets == {-480, 0, 600}
FnZones == {-600, -300, 0, 540}

SetupDefault ==
  [weekdays |-> Window(FALSE, <<9, 0, "AM">>, <<5, 0, "PM">>),
   weekends |-> Window(FALSE, NoTime, NoTime)]
WeekendOnly ==
  [weekdays |-> Undefined,
   weekends |-> Window(TRUE, <<12, 0, "AM">>, <<2, 0, "PM">>)]
WeekdayOnly ==
  [weekdays |-> Window(TRUE, <<9, 30, "AM">>, <<4, 59, "PM">>),
   weekends |-> Undefined]
HalfSet ==
  [weekdays |-> Window(FALSE, NoTime, <<5, 0, "PM">>),
   weekends |-> Window(TRUE, <<12, 0, "AM">>, NoTime)]

\* free text "0:00" and "24:00" (no AM/PM) on every day
WholeDay ==
  [weekdays |-> Window(TRUE, <<0, 0, "">>, <<24, 0, "">>),
   weekends |-> Window(TRUE, <<0, 0, "">>, <<24, 0, "">>)]

FnPatterns ==
  {Null, Business, SetupDefault, AllWeek, WeekendOnly, WeekdayOnly, HalfSet, WholeDay}
FnClock == {0, 540, 570, 600, 990, 1020, 1410}   \* minutes after 00:00Z
FnLengths == {30, 31, 60}
FnDurations == {0, 15, 30, 45, 60, 450, 480, 510}

InitFn ==
  /\ localOffset \in FnOffsets
  /\ users = [u \in Users |-> 0]
  /\ calendars = <<>>
  /\ meetings = {}
  /\ args = [userIds |-> {}, startDate |-> 1, endDate |-> 1, duration |-> 30]
  /\ pc = "idle"
  /\ fetched = <<>>
  /\ availableSlots = <<>>
  /\ call = Idle
  /\ previous = NoCall
  /\ NoFlows
  /\ NoReminders

CallCheckTime ==
  /\ pc = "idle"
  /\ call = Idle
  /\ \E date \in Dates, clock \in FnClock, length \in FnLengths,
        availability \in FnPatterns, timezone \in FnZones :
       LET startTime == date * 1440 + clock
           endTime == startTime + length
       IN  call' = [fn |-> "checkTimeAgainstAvailability",
                    startTime |-> startTime, endTime |-> endTime,
                    availability |-> availability, timezone |-> timezone,
                    ret |-> checkTimeAgainstAvailability(startTime, endTime,
                                                         availability, timezone)]
  /\ UNCHANGED <<reminderVars, localOffset, users, calendars, meetings, args, pc, fetched, availableSlots, previous, flowVars>>

CallGenerateTimeSlots ==
  /\ pc = "idle"
  /\ call = Idle
  /\ \E startDate \in Dates, endDate \in Dates, duration \in FnDurations :
       call' = [fn |-> "generateTimeSlots",
                startDate |-> startDate, endDate |-> endDate, duration |-> duration,
                ret |-> generateTimeSlots(startDate, endDate, duration)]
  /\ UNCHANGED <<reminderVars, localOffset, users, calendars, meetings, args, pc, fetched, availableSlots, previous, flowVars>>

NextFn == CallCheckTime \/ CallGenerateTimeSlots

SpecFn == InitFn /\ [][NextFn]_vars

-----------------------------------------------------------------------------
(* Vocabulary of the properties                                            *)

Range(seq) == {seq[i] : i \in 1..Len(seq)}

\* the call ran to its end with both queries answered
Completed == pc = "returned" /\ fetched # <<>>

\* the candidate slots of the call
TimeSlots == generateTimeSlots(args.startDate, args.endDate, args.duration)

CalendarsOf(u) == {i \in 1..Len(calendars) : calendars[i].user_id = u}
TheCalendar(u) == calendars[CHOOSE i \in CalendarsOf(u) : TRUE]

\* the confirmed meetings of the store on the one calendar of u
ConfirmedOf(u) ==
  {m \in meetings : m.calendar_id = TheCalendar(u).id /\ m.status = "confirmed"}

\* the conflict relation as the specification states it
Overlaps(slot, b) == slot.start < b.end_time /\ slot.end > b.start_time
Conflicting(slot, b) ==
  Overlaps(slot, b) \/ slot.start = b.start_time \/ slot.end = b.end_time
Abuts(slot, b) == slot.end = b.start_time \/ slot.start = b.end_time

\* what the call fetched and grouped: the booked ranges it holds for u
FetchedMeetings ==
  MeetingsQuery({fetched[i].id : i \in 1..Len(fetched)}, args.startDate, args.endDate)
BookedRanges(u) == {m \in FetchedMeetings : \E i \in 1..Len(fetched) :
                      /\ fetched[i].users.user_id = u
                      /\ \A j \in 1..Len(fetched) : fetched[j].users.user_id = u => j <= i
                      /\ m.calendar_id = fetched[i].id}

\* u's pattern and timezone accept the slot
Within(slot, u) ==
  \E i \in 1..Len(fetched) :
    /\ fetched[i].users.user_id = u
    /\ \A j \in 1..Len(fetched) : fetched[j].users.user_id = u => j <= i
    /\ checkTimeAgainstAvailability(slot.start, slot.end, fetched[i].availability, users[u])

-----------------------------------------------------------------------------
(* C1 *)

\* C1 (as claimed): when every requested user owns exactly one calendar, the
\* call returns exactly the candidate slots for which every requested user is
\* within availability and has no conflicting confirmed meeting.
C1_ExactlyTheFreeSlots ==
  (Completed /\ \A u \in args.userIds : Cardinality(CalendarsOf(u)) = 1) =>
    LET Free(slot) ==
          \A u \in args.userIds :
            /\ checkTimeAgainstAvailability(slot.start, slot.end,
                                            TheCalendar(u).availability, users[u])
            /\ ~\E b \in ConfirmedOf(u) : Conflicting(slot, b)
    IN  availableSlots = SelectSeq(TimeSlots, Free)

-----------------------------------------------------------------------------
(* C2 *)

\* every requested user's pattern accepts the slot
AllWithin(slot) == \A u \in args.userIds : Within(slot, u)

\* C2: the conflict test of a candidate slot against one owner's booked ranges
\* is true iff some booked range b has (slot.start < b.end and slot.end >
\* b.start) or slot.start = b.start or slot.end = b.end: a candidate slot that
\* every requested user's availability accepts is returned iff no requested
\* user holds such a range (in particular when the user holds none).
C2_ConflictTest ==
  Completed =>
    \A slot \in Range(TimeSlots) :
      AllWithin(slot) =>
        ((slot \in Range(availableSlots)) <=>
           (\A u \in args.userIds : ~\E b \in BookedRanges(u) : Conflicting(slot, b)))

\* a slot inside everybody's availability was dropped for a booked range, and
\* another one was returned
C2_Witness ==
  /\ Completed
  /\ availableSlots # <<>>
  /\ \E slot \in Range(TimeSlots) :
       /\ AllWithin(slot)
       /\ slot \notin Range(availableSlots)
       /\ \E u \in args.userIds : \E b \in BookedRanges(u) : Conflicting(slot, b)

-----------------------------------------------------------------------------
(* C3 *)

-----------------------------------------------------------------------------
(* C5 *)

\* every calendar of u says weekends.available = false
WeekendsOff(u) ==
  /\ CalendarsOf(u) # {}
  /\ \A i \in CalendarsOf(u) :
       /\ calendars[i].availability # Null
       /\ calendars[i].availability.weekends # Undefined
       /\ ~calendars[i].availability.weekends.available

\* C5: no returned slot starts on a Saturday or Sunday, in u's timezone, of a
\* requested user u whose pattern has weekends.available = false, whatever the
\* other users' patterns and bookings are.
C5_NoWeekendSlot ==
  pc = "returned" =>
    \A u \in args.userIds :
      WeekendsOff(u) =>
        \A slot \in Range(availableSlots) : LocalDay(slot.start, users[u]) \notin {0, 6}

\* a slot that starts on u's weekend but on a weekday of the process, and that
\* every other requested user is free for, was dropped; other slots were returned
C5_Witness ==
  /\ Completed
  /\ availableSlots # <<>>
  /\ \E u \in args.userIds :
       /\ WeekendsOff(u)
       /\ \E slot \in Range(TimeSlots) \ Range(availableSlots) :
            /\ LocalDay(slot.start, users[u]) \in {0, 6}
            /\ LocalDay(slot.start, localOffset) \notin {0, 6}
            /\ \A v \in args.userIds \ {u} :
                 UserIsFree(slot, fetched, FetchedMeetings, v)

-----------------------------------------------------------------------------
(* C9 *)

\* C9: a call with an empty list of users returns an empty list and throws
\* nothing, for every date range and duration.
C9_NoUsersNoSlots ==
  (args.userIds = {} /\ pc # "calendarsQuery") =>
    (pc = "returned" /\ availableSlots = <<>>)

\* such a call returned, over a store that holds calendars and meetings
C9_Witness ==
  /\ args.userIds = {}
  /\ pc = "returned"
  /\ calendars # <<>>
  /\ meetings # {}

-----------------------------------------------------------------------------
(* C10 *)

\* C10 (as claimed): a call whose endDate precedes its startDate does not
\* return normally (it fails with InvalidDateRange instead of returning a list);
\* in particular it never gets past both queries into slot generation and back
\* with a list, which is what a successful request that found no slot does.
C10_InvalidDateRangeFails ==
  ~(Completed /\ args.userIds # {} /\ args.endDate < args.startDate)

-----------------------------------------------------------------------------
(* Vocabulary of the properties of checkTimeAgainstAvailability            *)

Checked == call.fn = "checkTimeAgainstAvailability"

\* the day class of the slot's start in the owner's timezone, and its window
CallWeekend == LocalDay(call.startTime, call.timezone) \in {0, 6}
CallWindow ==
  IF call.availability = Null THEN Undefined
  ELSE IF CallWeekend THEN call.availability.weekends
  ELSE call.availability.weekdays

\* the window is present and carries a start and an end
HasTimes(w) == w # Undefined /\ w.start # NoTime /\ w.end # NoTime

\* wall-clock minutes of "h:mm AM/PM": 12:xx AM is 0:xx, 12:xx PM is 12:xx
ClockMinutes(str) ==
  (IF str[1] = 12 THEN 0 ELSE str[1] * 60) + str[2] + (IF str[3] = "PM" THEN 720 ELSE 0)

\* the window's bounds on the local date of the slot's start, as instants
WindowStart(w) ==
  LocalDate(call.startTime, call.timezone) * 1440 + ClockMinutes(w.start) - call.timezone
WindowEnd(w) ==
  LocalDate(call.startTime, call.timezone) * 1440 + ClockMinutes(w.end) - call.timezone
InsideWindow(w) == call.startTime >= WindowStart(w) /\ call.endTime <= WindowEnd(w)

-----------------------------------------------------------------------------
(* C4 *)

\* C4 (as claimed): when the window of the slot's day class is present with
\* start and end set, the result is true iff slot.start >= windowStart and
\* slot.end <= windowEnd on the slot start's local date.
C4_UsableWindowIff ==
  (Checked /\ HasTimes(CallWindow)) => (call.ret <=> InsideWindow(CallWindow))

\* C4 (amended): when the window of the slot's day class is present with start
\* and end set and, for the weekend class, with available = true, the result is
\* true iff slot.start >= windowStart and slot.end <= windowEnd on the slot
\* start's local date in the owner's timezone.
C4_AvailableWindowIff ==
  (Checked /\ HasTimes(CallWindow) /\ (CallWeekend => CallWindow.available)) =>
    (call.ret <=> InsideWindow(CallWindow))

\* a slot ending one minute after windowEnd was rejected
C4_Witness ==
  /\ Checked
  /\ HasTimes(CallWindow)
  /\ call.startTime >= WindowStart(CallWindow)
  /\ call.endTime = WindowEnd(CallWindow) + 1
  /\ ~call.ret

-----------------------------------------------------------------------------
(* C6 *)

\* the window accepts the slot
Accepts(w) == HasTimes(w) /\ (CallWeekend => w.available) /\ InsideWindow(w)

\* C6: the slot is evaluated against the window of the day class of its start
\* instant in the owner's own timezone, whatever day that instant is in the
\* timezone the slot was generated in.
C6_OwnerDayClass == Checked => (call.ret <=> Accepts(CallWindow))

\* Friday where the slot was generated, Saturday for the owner: accepted by a
\* pattern that has no weekday window at all
C6_Witness ==
  /\ Checked
  /\ LocalDay(call.startTime, localOffset) = 5
  /\ LocalDay(call.startTime, call.timezone) = 6
  /\ call.availability # Null
  /\ call.availability.weekdays = Undefined
  /\ call.ret

-----------------------------------------------------------------------------
(* C7 *)

\* C7 (as claimed): for either day class, if the class's window is absent or
\* its available flag is false, the result is false.
C7_UnavailableClassRejected ==
  (Checked /\ call.availability # Null) =>
    ((CallWindow = Undefined \/ ~CallWindow.available) => ~call.ret)

\* C7 (amended): if the window of the slot's day class is absent, or the class
\* is the weekend and the window's available flag is false, the result is
\* false, even when the window carries start and end times.  (A weekday
\* window's available flag is not consulted.)
C7_AbsentOrWeekendOffRejected ==
  (Checked /\ call.availability # Null) =>
    /\ (CallWindow = Undefined => ~call.ret)
    /\ ((CallWeekend /\ CallWindow # Undefined /\ ~CallWindow.available) => ~call.ret)

\* a weekend slot inside the times of a weekend window whose flag is false
C7_Witness ==
  /\ Checked
  /\ call.availability # Null
  /\ CallWeekend
  /\ HasTimes(CallWindow)
  /\ ~CallWindow.available
  /\ InsideWindow(CallWindow)
  /\ ~call.ret

-----------------------------------------------------------------------------
(* C8 *)

Generated == call.fn = "generateTimeSlots"

\* wall-clock start times (minutes after local midnight) of the slots on date d
StartsOn(d) ==
  {s.start + localOffset - d * 1440 :
     s \in {x \in Range(call.ret) : LocalDate(x.start, localOffset) = d}}

\* C8 (as claimed): for every date d of the range and every duration D with
\* 0 < D <= 480, the slots of d start exactly at 09:00 + 30k minutes, k >= 0,
\* with 09:00 + 30k + D <= 17:00.
C8_StartsFromNine ==
  (Generated /\ call.duration > 0 /\ call.duration <= 480) =>
    \A d \in call.startDate..call.endDate :
      StartsOn(d) = {540 + 30 * k : k \in {j \in 0..16 : 540 + 30 * j + call.duration <= 1020}}

-----------------------------------------------------------------------------
(* One findGroupAvailability call over store snapshots of a Sunday and a   *)
(* Monday: owners in New York and London, windows whose strings are not    *)
(* "h:mm AM/PM", meetings of every status                                  *)

WeekDates == {3, 4}           \* Sun 1970-01-04, Mon 1970-01-05
WeekOffsets == {-300, 0}      \* the process in America/New_York or in UTC
WeekZones == {-300, 0}        \* America/New_York, Europe/London (winter)
WeekStatuses == {"confirmed", "tentative", "cancelled"}

\* weekday start "soon"; weekend window well-formed and available
BadStart ==
  [weekdays |-> Window(FALSE, <<"soon">>, <<5, 0, "PM">>),
   weekends |-> Window(TRUE, <<9, 0, "AM">>, <<5, 0, "PM">>)]
\* weekday end "25:00 PM"; weekend window well-formed and available
BadEnd ==
  [weekdays |-> Window(FALSE, <<9, 0, "AM">>, <<25, 0, "PM">>),
   weekends |-> Window(TRUE, <<9, 0, "AM">>, <<5, 0, "PM">>)]

WeekPatterns == {Business, BadStart, BadEnd}

\* Sun 15:00-16:00Z and Mon 15:00-16:00Z (10:00-11:00 in New York)
WeekMeetingTimes == {<<3 * 1440 + 900, 3 * 1440 + 960>>, <<4 * 1440 + 900, 4 * 1440 + 960>>}

\* the calendars table: at most one calendar per user
WeekTables ==
  {t1 \o t2 : t1 \in UNION {[1..n -> {"u1"} \X WeekPatterns] : n \in 0..1},
              t2 \in UNION {[1..n -> {"u2"} \X WeekPatterns] : n \in 0..1}}

WeekMeetingRows(n) ==
  {[calendar_id |-> c, start_time |-> t[1], end_time |-> t[2], status |-> s] :
     c \in 1..n, t \in WeekMeetingTimes, s \in WeekStatuses}

InitWeek ==
  /\ localOffset \in WeekOffsets
  /\ users \in [Users -> WeekZones]
  /\ \E t \in WeekTables :
       calendars = [i \in 1..Len(t) |->
                      [id |-> i, user_id |-> t[i][1], availability |-> t[i][2]]]
  /\ meetings \in {ms \in SUBSET WeekMeetingRows(Len(calendars)) :
                     Cardinality(ms) <= MaxMeetings}
  /\ args \in [userIds : SUBSET Users, startDate : WeekDates, endDate : WeekDates,
               duration : StoreDurations]
  /\ pc = "calendarsQuery"
  /\ fetched = <<>>
  /\ availableSlots = <<>>
  /\ call = Idle
  /\ previous = NoCall
  /\ NoFlows
  /\ NoReminders

SpecWeek == InitWeek /\ [][Next]_vars

-----------------------------------------------------------------------------
(* C11 *)

\* the string is there but is not "h:mm AM/PM" with h in 1..12 and mm in 00..59
Malformed(str) ==
  str # NoTime /\ (Len(str) < 3 \/ str[1] \notin 1..12 \/ str[2] \notin 0..59)

\* the window of u's pattern for the day class of the slot's start in u's timezone
OwnerWindow(slot, u) ==
  LET availability == TheCalendar(u).availability
  IN  IF LocalDay(slot.start, users[u]) \in {0, 6}
      THEN availability.weekends
      ELSE availability.weekdays

\* the slot falls on a day class whose window of u has an unparsable start or end
Affected(slot, u) ==
  /\ CalendarsOf(u) # {}
  /\ Malformed(OwnerWindow(slot, u).start) \/ Malformed(OwnerWindow(slot, u).end)

\* C11 (as claimed): an owner whose window for the slot's day class has a start
\* or end string that cannot be parsed as h:mm AM/PM is treated as unavailable
\* for that slot: the completed call returns no slot affected for a requested
\* user.
C11_UnparsableMeansUnavailable ==
  Completed =>
    \A slot \in Range(availableSlots) : \A u \in args.userIds : ~Affected(slot, u)

-----------------------------------------------------------------------------
(* C12 *)

\* the meetings of the store, of the given statuses, on a calendar of u
StoredOf(u, statuses) ==
  {m \in meetings : m.calendar_id \in CalendarsOf(u) /\ m.status \in statuses}

\* C12: only confirmed meetings block slots.  A candidate slot that every
\* requested user's availability accepts and that conflicts with no confirmed
\* meeting of a requested user is returned, whatever tentative and cancelled
\* meetings the store holds and wherever they lie.
C12_OnlyConfirmedBlocks ==
  Completed =>
    \A slot \in Range(TimeSlots) :
      (/\ AllWithin(slot)
       /\ \A u \in args.userIds :
            ~\E b \in StoredOf(u, {"confirmed"}) : Conflicting(slot, b))
      => slot \in Range(availableSlots)

\* a returned slot overlaps a cancelled meeting of a requested user
C12_Witness ==
  /\ Completed
  /\ \E u \in args.userIds : \E m \in StoredOf(u, {"cancelled"}) :
       \E slot \in Range(availableSlots) : Overlaps(slot, m)

-----------------------------------------------------------------------------
(* C13 *)

\* C13 (as claimed): no returned slot overlaps a confirmed meeting, among those
\* the call fetched, on any calendar of a requested user.
C13_AnyCalendarBlocks ==
  Completed =>
    \A slot \in Range(availableSlots) : \A u \in args.userIds :
      \A m \in FetchedMeetings : m.calendar_id \in CalendarsOf(u) => ~Overlaps(slot, m)

-----------------------------------------------------------------------------
(* The same call made twice over one store snapshot                        *)

\* users in UTC, requests that start on Friday
InitTwice ==
  /\ Init
  /\ users = [u \in Users |-> 0]
  /\ args.startDate = 1

\* the caller calls findGroupAvailability again, with the arguments and over
\* the store of the call that just ended
CallAgain ==
  /\ pc \in {"returned", "threw"}
  /\ previous = NoCall
  /\ previous' = [pc |-> pc, fetched |-> fetched, availableSlots |-> availableSlots,
                  store |-> <<users, calendars, meetings>>, args |-> args]
  /\ pc' = "calendarsQuery"
  /\ fetched' = <<>>
  /\ availableSlots' = <<>>
  /\ UNCHANGED <<reminderVars, localOffset, users, calendars, meetings, args, call, flowVars>>

NextTwice == CalendarsQueryDone \/ MeetingsQueryDone \/ CallAgain

SpecTwice == InitTwice /\ [][NextTwice]_vars

-----------------------------------------------------------------------------
(* C14 *)

-----------------------------------------------------------------------------
(* C15 *)

\* chronological: from each slot to the next the start instant increases, the
\* date does not decrease, and within a date the time increases
Chronological(slots) ==
  \A i \in 1..(Len(slots) - 1) :
    /\ slots[i].start < slots[i + 1].start
    /\ slots[i].formatted.date <= slots[i + 1].formatted.date
    /\ slots[i].formatted.date = slots[i + 1].formatted.date
         => slots[i].formatted.time < slots[i + 1].formatted.time

\* C15: the list returned is a subsequence of the list generateTimeSlots
\* produced (the generated slots that were retained, in generation order), and
\* that list is in strictly increasing order of start instant: dates ascending
\* from startDate to endDate, times ascending within each date.
C15_GenerationOrder ==
  pc = "returned" =>
    LET Retained(slot) == slot \in Range(availableSlots)
    IN  /\ Chronological(TimeSlots)
        /\ \A slot \in Range(TimeSlots) :
             slot.formatted.date \in args.startDate..args.endDate
        /\ availableSlots = SelectSeq(TimeSlots, Retained)

\* slots of two dates were returned, and some generated slot of each date was not
C15_Witness ==
  /\ Completed
  /\ \E s1, s2 \in Range(availableSlots) : s1.formatted.date < s2.formatted.date
  /\ \A d \in args.startDate..args.endDate :
       \E slot \in Range(TimeSlots) \ Range(availableSlots) : slot.formatted.date = d

-----------------------------------------------------------------------------
(* C16 *)

\* wall-clock minutes after local midnight of instant t in a zone
LocalClock(t, zone) == (t + zone) % 1440

\* the slot lies within from..to (wall-clock minutes) of one local day of the zone
LocalBetween(slot, zone, from, to) ==
  /\ LocalClock(slot.start, zone) >= from
  /\ LocalClock(slot.start, zone) + (slot.end - slot.start) <= to

\* owner a in New York, owner b in London, one calendar each with the weekday
\* window 9:00 AM - 5:00 PM, no bookings, a request for Monday 1970-01-05
NewYorkLondon(a, b) ==
  /\ args.userIds = {a, b}
  /\ users[a] = -300 /\ users[b] = 0
  /\ \A u \in {a, b} :
       /\ Cardinality(CalendarsOf(u)) = 1
       /\ TheCalendar(u).availability = Business
  /\ meetings = {}
  /\ args.startDate = 4 /\ args.endDate = 4

\* C16 (as claimed): in that scenario every returned slot lies inside both
\* owners' local 09:00-17:00 windows, and within 14:00-17:00 New York time and
\* 09:00-12:00 London time.
C16_OverlapAsStated ==
  \A a \in Users : \A b \in Users :
    (Completed /\ NewYorkLondon(a, b)) =>
      \A slot \in Range(availableSlots) :
        /\ LocalBetween(slot, users[a], 540, 1020)
        /\ LocalBetween(slot, users[b], 540, 1020)
        /\ LocalBetween(slot, users[a], 840, 1020)
        /\ LocalBetween(slot, users[b], 540, 720)

\* C16 (amended): in that scenario every returned slot lies inside both owners'
\* local 09:00-17:00 windows, and the returned slots fall only within
\* 09:00-12:00 New York time, which is 14:00-17:00 London time.
C16_OverlapWindow ==
  \A a \in Users : \A b \in Users :
    (Completed /\ NewYorkLondon(a, b)) =>
      \A slot \in Range(availableSlots) :
        /\ LocalBetween(slot, users[a], 540, 1020)
        /\ LocalBetween(slot, users[b], 540, 1020)
        /\ LocalBetween(slot, users[a], 540, 720)
        /\ LocalBetween(slot, users[b], 840, 1020)

\* the scenario with the process in UTC: the six slots 14:00Z .. 16:30Z of Monday
\* were returned, the slot 13:30Z (08:30 in New York) was not
C16_Witness ==
  /\ Completed
  /\ \E a \in Users : \E b \in Users : NewYorkLondon(a, b)
  /\ localOffset = 0
  /\ {slot.start - 4 * 1440 : slot \in Range(availableSlots)} = {840, 870, 900, 930, 960, 990}
  /\ \E slot \in Range(TimeSlots) : slot.start = 4 * 1440 + 810

-----------------------------------------------------------------------------
(* isTimeSlotAvailable                                                     *)

\* getCalendar: supabase.from('calendars').select('*, users(*)').eq('id', id)
\* .single(); an error (the store's, or no such row) gives null
getCalendar(calendarId, error) ==
  IF error \/ calendarId \notin 1..Len(calendars)
  THEN Null
  ELSE [id |-> calendars[calendarId].id,
        availability |-> calendars[calendarId].availability,
        users |-> [user_id |-> calendars[calendarId].user_id,
                   timezone |-> users[calendars[calendarId].user_id]]]

\* the count of supabase.from('meetings').select('id', {count: 'exact'})
\*   .eq('calendar_id', calendarId).eq('status', 'confirmed')
\*   .or(`start_time.lte.${endTime},end_time.gte.${startTime}`)
ConflictCount(calendarId, startTime, endTime) ==
  Cardinality({m \in meetings :
                 /\ m.calendar_id = calendarId
                 /\ m.status = "confirmed"
                 /\ (m.start_time <= endTime \/ m.end_time >= startTime)})

\* calendarError, countError: whether the store answers the query with an error
isTimeSlotAvailable(calendarId, startTime, endTime, calendarError, countError) ==
  LET calendar == getCalendar(calendarId, calendarError)
  IN  IF calendar = Null
      THEN FALSE
      ELSE IF ~checkTimeAgainstAvailability(startTime, endTime, calendar.availability,
                                            calendar.users.timezone)
      THEN FALSE
      ELSE IF countError
      THEN FALSE
      ELSE ConflictCount(calendarId, startTime, endTime) = 0

\* ranges asked about: Sunday and Monday, 14:00Z .. 16:00Z, 30 or 60 minutes
SlotClock == {840, 900, 930, 960}
SlotLengths == {30, 60}

InitSlot ==
  /\ localOffset = 0
  /\ users \in [Users -> WeekZones]
  /\ \E t \in WeekTables :
       calendars = [i \in 1..Len(t) |->
                      [id |-> i, user_id |-> t[i][1], availability |-> t[i][2]]]
  /\ meetings \in {ms \in SUBSET WeekMeetingRows(Len(calendars)) :
                     Cardinality(ms) <= MaxMeetings}
  /\ args = [userIds |-> {}, startDate |-> 3, endDate |-> 3, duration |-> 30]
  /\ pc = "idle"
  /\ fetched = <<>>
  /\ availableSlots = <<>>
  /\ call = Idle
  /\ previous = NoCall
  /\ NoFlows
  /\ NoReminders

CallIsTimeSlotAvailable ==
  /\ pc = "idle"
  /\ call = Idle
  /\ \E calendarId \in 1..2, date \in WeekDates, clock \in SlotClock, length \in SlotLengths,
        calendarError \in BOOLEAN, countError \in BOOLEAN :
       LET startTime == date * 1440 + clock
           endTime == startTime + length
       IN  call' = [fn |-> "isTimeSlotAvailable", calendarId |-> calendarId,
                    startTime |-> startTime, endTime |-> endTime,
                    calendarError |-> calendarError, countError |-> countError,
                    ret |-> isTimeSlotAvailable(calendarId, startTime, endTime,
                                                calendarError, countError)]
  /\ UNCHANGED <<reminderVars, localOffset, users, calendars, meetings, args, pc, fetched, availableSlots,
                 previous, flowVars>>

NextSlot == CallIsTimeSlotAvailable

SpecSlot == InitSlot /\ [][NextSlot]_vars

-----------------------------------------------------------------------------
(* C17 *)

Asked == call.fn = "isTimeSlotAvailable"

\* the calendar asked about exists and its owner's availability accepts the range
AskedInAvailability ==
  /\ call.calendarId \in 1..Len(calendars)
  /\ checkTimeAgainstAvailability(call.startTime, call.endTime,
                                  calendars[call.calendarId].availability,
                                  users[calendars[call.calendarId].user_id])

\* the confirmed meetings of the calendar asked about
AskedConfirmed ==
  {m \in meetings : m.calendar_id = call.calendarId /\ m.status = "confirmed"}

\* C17 (as claimed): when the store answers both queries, the result is true iff
\* the calendar exists, the range is within the owner's availability, and no
\* confirmed meeting of that calendar overlaps the range; so it is true for an
\* in-availability range when all confirmed meetings of the calendar lie
\* entirely outside it.  It is false when the conflict query errors.
C17_TrueIffFree ==
  Asked =>
    /\ (~call.calendarError /\ ~call.countError) =>
         (call.ret <=>
            /\ AskedInAvailability
            /\ ~\E m \in AskedConfirmed :
                  m.start_time < call.endTime /\ m.end_time > call.startTime)
    /\ (call.calendarError \/ call.countError) => ~call.ret

-----------------------------------------------------------------------------
(* The /group-schedule flows (group-schedule.js)                           *)
(*                                                                         *)
(* A flow is one submission of the session details form and what follows   *)
(* from it.  Its stage says which of its collectors and forms is waiting:  *)
(*   "participants"  the select menu and the Continue / Cancel buttons     *)
(*   "moving"        Continue was pressed, the 1 s timer is pending        *)
(*   "dateRange"     the date range form is shown                          *)
(*   "selecting"     the time select menu                                  *)
(*   "confirming"    the Confirm / Cancel buttons                          *)
(* and the stages in which nothing of the flow waits any more: "done",     *)
(* "cancelled", "timedOut", "rejected", "failed", "stalled", "expired".    *)

MaxFlows == 2         \* flows started in one run

\* the object stored at line 122 (title and description do not matter; the
\* duration entered is 30 minutes)
NewSession == [participants |-> {}, duration |-> 30, dated |-> FALSE, scheduled |-> FALSE]
\* a flow that stored no object
NoSession == [none |-> TRUE]

\* i.values of the user select menu (min 1 value)
Selections == {Users}

\* collected: whether the flow's running collector has collected an interaction;
\* data: the session object its closure (or pending timer) holds, 0 for none;
\* entered: what its closure holds of the details form (startTimeStr, duration,
\* startDateTime, endDateTime of processMeetingDetailsForm), <<>> before
Flow(host, stage) ==
  [host |-> host, stage |-> stage, collected |-> FALSE, data |-> 0, entered |-> <<>>]

SetFlow(f, stage, collected, data) ==
  [flows EXCEPT ![f] = [host |-> @.host, stage |-> stage, collected |-> collected,
                        data |-> data, entered |-> @.entered]]

\* global.pendingGroupSessions[interaction.user.id] for the host of flow f
Entry(f) == pendingGroupSessions[flows[f].host]

\* the handler that ran last: the flow it belongs to, the session objects whose
\* map entry or fields it read, wrote or deleted, and whether it ended in its
\* catch block (or with a rejection message)
Handler(name, f, touched, failed) ==
  [fn |-> name, flow |-> f, touched |-> touched \ {0}, failed |-> failed]

InitGroup ==
  /\ localOffset = 0
  /\ users = [u \in Users |-> 0]
  /\ calendars = <<>>
  /\ meetings = {}
  /\ args = [userIds |-> {}, startDate |-> 1, endDate |-> 1, duration |-> 30]
  /\ pc = "idle"
  /\ fetched = <<>>
  /\ availableSlots = <<>>
  /\ call = Idle
  /\ previous = NoCall
  /\ NoFlows
  /\ NoReminders

\* Variant of processGroupSessionDetailsForm that stores the host's entry
\* before it validates the form
SubmitGroupSessionDetails_StoresFirst ==
  /\ Len(flows) < MaxFlows
  /\ \E host \in Users, accepted \in BOOLEAN :
       LET f == Len(flows) + 1
       IN  /\ pendingGroupSessions' = [pendingGroupSessions EXCEPT ![host] = f]
           /\ IF accepted
              THEN /\ sessionData' = Append(sessionData, NewSession)
                   /\ flows' = Append(flows, Flow(host, "participants"))
                   /\ call' = Handler("processGroupSessionDetailsForm", f,
                                      {f, pendingGroupSessions[host]}, FALSE)
              ELSE /\ sessionData' = Append(sessionData, NoSession)
                   /\ flows' = Append(flows, Flow(host, "rejected"))
                   /\ call' = Handler("processGroupSessionDetailsForm", f, {}, TRUE)
  /\ UNCHANGED <<engineVars, pendingMeetings, meetingData>>

\* processGroupSessionDetailsForm: an invalid duration or a createGroupSession
\* that throws ends the flow with a message; otherwise the session object is
\* stored under the host's user id and the first collector starts
SubmitGroupSessionDetails ==
  /\ Len(flows) < MaxFlows
  /\ \E host \in Users, accepted \in BOOLEAN :
       LET f == Len(flows) + 1
       IN  IF accepted
           THEN /\ pendingGroupSessions' = [pendingGroupSessions EXCEPT ![host] = f]
                /\ sessionData' = Append(sessionData, NewSession)
                /\ flows' = Append(flows, Flow(host, "participants"))
                /\ call' = Handler("processGroupSessionDetailsForm", f,
                                   {f, pendingGroupSessions[host]}, FALSE)
           ELSE /\ pendingGroupSessions' = pendingGroupSessions
                /\ sessionData' = Append(sessionData, NoSession)
                /\ flows' = Append(flows, Flow(host, "rejected"))
                /\ call' = Handler("processGroupSessionDetailsForm", f, {}, TRUE)
  /\ UNCHANGED <<engineVars, pendingMeetings, meetingData>>

\* collector 'collect', customId participant_select: the entry of the host is
\* read from the global map and its participants are replaced; without an entry
\* the assignment throws and the catch block removes the components
SelectParticipants ==
  /\ \E f \in 1..Len(flows), values \in Selections :
       /\ flows[f].stage = "participants"
       /\ IF Entry(f) = 0
          THEN /\ sessionData' = sessionData
               /\ flows' = SetFlow(f, "failed", TRUE, 0)
               /\ call' = Handler("participant_select", f, {}, TRUE)
          ELSE /\ sessionData' = [sessionData EXCEPT ![Entry(f)].participants = values]
               /\ flows' = SetFlow(f, "participants", TRUE, 0)
               /\ call' = Handler("participant_select", f, {Entry(f)}, FALSE)
  /\ UNCHANGED <<engineVars, pendingGroupSessions, pendingMeetings, meetingData>>

\* Variant of the continue_to_scheduling branch without the test of the
\* participant list
ContinueToScheduling_Unchecked ==
  /\ \E f \in 1..Len(flows) :
       /\ flows[f].stage = "participants"
       /\ IF Entry(f) = 0
          THEN /\ flows' = SetFlow(f, "failed", TRUE, 0)
               /\ call' = Handler("continue_to_scheduling", f, {}, TRUE)
          ELSE /\ flows' = SetFlow(f, "moving", TRUE, Entry(f))
               /\ call' = Handler("continue_to_scheduling", f, {Entry(f)}, FALSE)
  /\ UNCHANGED <<engineVars, pendingGroupSessions, sessionData, pendingMeetings, meetingData>>

\* collector 'collect', customId continue_to_scheduling: with participants the
\* timer for startGroupScheduling is set, holding the session object read
ContinueToScheduling ==
  /\ \E f \in 1..Len(flows) :
       /\ flows[f].stage = "participants"
       /\ IF Entry(f) = 0
          THEN /\ flows' = SetFlow(f, "failed", TRUE, 0)
               /\ call' = Handler("continue_to_scheduling", f, {}, TRUE)
          ELSE IF sessionData[Entry(f)].participants = {}
          THEN /\ flows' = SetFlow(f, "participants", TRUE, 0)
               /\ call' = Handler("continue_to_scheduling", f, {Entry(f)}, FALSE)
          ELSE /\ flows' = SetFlow(f, "moving", TRUE, Entry(f))
               /\ call' = Handler("continue_to_scheduling", f, {Entry(f)}, FALSE)
  /\ UNCHANGED <<engineVars, pendingGroupSessions, sessionData, pendingMeetings, meetingData>>

\* Variant of the first collector's cancel branch without its clean-up
CancelGroupSession_KeepsEntry ==
  /\ \E f \in 1..Len(flows) :
       /\ flows[f].stage = "participants"
       /\ flows' = SetFlow(f, "cancelled", TRUE, 0)
       /\ call' = Handler("cancel_group_session", f, {Entry(f)}, FALSE)
  /\ UNCHANGED <<engineVars, pendingGroupSessions, sessionData, pendingMeetings, meetingData>>

\* collector 'collect', customId cancel_group_session, first collector
CancelGroupSession ==
  /\ \E f \in 1..Len(flows) :
       /\ flows[f].stage = "participants"
       /\ pendingGroupSessions' = [pendingGroupSessions EXCEPT ![flows[f].host] = 0]
       /\ flows' = SetFlow(f, "cancelled", TRUE, 0)
       /\ call' = Handler("cancel_group_session", f, {Entry(f)}, FALSE)
  /\ UNCHANGED <<engineVars, sessionData, pendingMeetings, meetingData>>

\* first collector 'end' with reason 'time' (10 minutes; nothing stops the
\* collector earlier): the entry is deleted only if nothing was collected and
\* the followUp went through
SelectionTimeout ==
  /\ \E f \in 1..Len(flows), sent \in BOOLEAN :
       /\ flows[f].stage \in {"participants", "moving", "dateRange"}
       /\ IF ~flows[f].collected /\ sent
          THEN pendingGroupSessions' = [pendingGroupSessions EXCEPT ![flows[f].host] = 0]
          ELSE pendingGroupSessions' = pendingGroupSessions
       /\ flows' = SetFlow(f, IF flows[f].stage = "participants" THEN "timedOut"
                              ELSE flows[f].stage,
                           flows[f].collected, flows[f].data)
       /\ call' = Handler("collector end", f,
                          IF ~flows[f].collected /\ sent THEN {Entry(f)} ELSE {},
                          ~flows[f].collected /\ ~sent)
  /\ UNCHANGED <<engineVars, sessionData, pendingMeetings, meetingData>>

\* startGroupScheduling, run by the timer: after the followUp, showModal is
\* called on an interaction that was already replied to; whether discord.js
\* shows the form or throws is its affair.  Only when it does not throw is the
\* held session object stored again under the host's id.
StartGroupScheduling ==
  /\ \E f \in 1..Len(flows), shown \in BOOLEAN :
       /\ flows[f].stage = "moving"
       /\ IF shown
          THEN /\ pendingGroupSessions' =
                    [pendingGroupSessions EXCEPT ![flows[f].host] = flows[f].data]
               /\ flows' = SetFlow(f, "dateRange", TRUE, flows[f].data)
               /\ call' = Handler("startGroupScheduling", f, {flows[f].data, Entry(f)}, FALSE)
          ELSE /\ pendingGroupSessions' = pendingGroupSessions
               /\ flows' = SetFlow(f, "stalled", TRUE, flows[f].data)
               /\ call' = Handler("startGroupScheduling", f, {flows[f].data}, TRUE)
  /\ UNCHANGED <<engineVars, sessionData, pendingMeetings, meetingData>>

\* what is entered in the date range form, <<start_date, end_date>>: Monday
\* 1970-01-05 alone, Monday and Tuesday, Tuesday to Monday, and text that is no
\* date (<<>>)
DateRangeInputs == {<<>>, <<4, 4>>, <<4, 5>>, <<5, 4>>}

\* the options of the time select menu: the date and wall-clock time of the
\* option's value, and its description.  startDate.add(1, 'day') in the third
\* and the fourth label moves startDate itself, so their values carry the
\* following dates.
TimeOptions(startDate) ==
  <<[date |-> startDate, time |-> 9 * 60, description |-> "All participants available"],
    [date |-> startDate, time |-> 14 * 60, description |-> "All participants available"],
    [date |-> startDate + 1, time |-> 10 * 60, description |-> "All participants available"],
    [date |-> startDate + 2, time |-> 15 * 60, description |-> "Most participants available"]>>

\* processDateRangeForm: invalid or reversed dates end it with a message; so
\* does a missing entry; otherwise the dates are written into the entry of the
\* host, the time select menu is sent with its options and its collector
\* starts, holding that object
SubmitDateRange ==
  /\ \E f \in 1..Len(flows), dates \in DateRangeInputs :
       /\ flows[f].stage = "dateRange"
       /\ IF Len(dates) = 0 \/ dates[2] < dates[1]
          THEN /\ sessionData' = sessionData
               /\ flows' = SetFlow(f, "rejected", FALSE, 0)
               /\ call' = Handler("processDateRangeForm", f, {}, TRUE)
          ELSE IF Entry(f) = 0
          THEN /\ sessionData' = sessionData
               /\ flows' = SetFlow(f, "expired", FALSE, 0)
               /\ call' = Handler("processDateRangeForm", f, {}, TRUE)
          ELSE /\ sessionData' = [sessionData EXCEPT ![Entry(f)].dated = TRUE]
               /\ flows' = SetFlow(f, "selecting", FALSE, Entry(f))
               /\ call' = Handler("processDateRangeForm", f, {Entry(f)}, FALSE)
                            @@ [startDate |-> dates[1], endDate |-> dates[2],
                                options |-> TimeOptions(dates[1])]
  /\ UNCHANGED <<engineVars, pendingGroupSessions, pendingMeetings, meetingData>>

\* second collector 'collect', customId time_select: the chosen time is written
\* into the held session object and the button collector starts
SelectTime ==
  /\ \E f \in 1..Len(flows) :
       /\ flows[f].stage = "selecting"
       /\ sessionData' = [sessionData EXCEPT ![flows[f].data].scheduled = TRUE]
       /\ flows' = SetFlow(f, "confirming", TRUE, flows[f].data)
       /\ call' = Handler("time_select", f, {flows[f].data}, FALSE)
  /\ UNCHANGED <<engineVars, pendingGroupSessions, pendingMeetings, meetingData>>

\* button collector 'collect', customId confirm_group_session: the entry of the
\* host is deleted after the channel message, if that did not throw
ConfirmGroupSession ==
  /\ \E f \in 1..Len(flows), sent \in BOOLEAN :
       /\ flows[f].stage = "confirming"
       /\ IF sent
          THEN /\ pendingGroupSessions' = [pendingGroupSessions EXCEPT ![flows[f].host] = 0]
               /\ flows' = SetFlow(f, "done", TRUE, flows[f].data)
               /\ call' = Handler("confirm_group_session", f, {flows[f].data, Entry(f)}, FALSE)
          ELSE /\ pendingGroupSessions' = pendingGroupSessions
               /\ flows' = SetFlow(f, "failed", TRUE, flows[f].data)
               /\ call' = Handler("confirm_group_session", f, {flows[f].data}, TRUE)
  /\ UNCHANGED <<engineVars, sessionData, pendingMeetings, meetingData>>

\* button collector 'collect', customId cancel_group_session
CancelConfirmation ==
  /\ \E f \in 1..Len(flows) :
       /\ flows[f].stage = "confirming"
       /\ pendingGroupSessions' = [pendingGroupSessions EXCEPT ![flows[f].host] = 0]
       /\ flows' = SetFlow(f, "cancelled", TRUE, flows[f].data)
       /\ call' = Handler("cancel_group_session", f, {Entry(f)}, FALSE)
  /\ UNCHANGED <<engineVars, sessionData, pendingMeetings, meetingData>>

\* second collector 'end' with reason 'time' (5 minutes): the entry is deleted
\* only if no time was selected and the followUp went through; the button
\* collector has no 'end' handler
TimeSelectTimeout ==
  /\ \E f \in 1..Len(flows), sent \in BOOLEAN :
       /\ flows[f].stage \in {"selecting", "confirming"}
       /\ IF ~flows[f].collected /\ sent
          THEN pendingGroupSessions' = [pendingGroupSessions EXCEPT ![flows[f].host] = 0]
          ELSE pendingGroupSessions' = pendingGroupSessions
       /\ flows' = SetFlow(f, "timedOut", flows[f].collected, flows[f].data)
       /\ call' = Handler("collector end", f,
                          IF ~flows[f].collected /\ sent THEN {Entry(f)} ELSE {},
                          ~flows[f].collected /\ ~sent)
  /\ UNCHANGED <<engineVars, sessionData, pendingMeetings, meetingData>>

NextGroup ==
  \/ SubmitGroupSessionDetails
  \/ SelectParticipants
  \/ ContinueToScheduling
  \/ CancelGroupSession
  \/ SelectionTimeout
  \/ StartGroupScheduling
  \/ SubmitDateRange
  \/ SelectTime
  \/ ConfirmGroupSession
  \/ CancelConfirmation
  \/ TimeSelectTimeout

SpecGroup == InitGroup /\ [][NextGroup]_vars

-----------------------------------------------------------------------------
(* C18 *)

InFlow == call.fn \in {"participant_select", "continue_to_scheduling", "cancel_group_session",
                       "collector end", "confirm_group_session", "time_select"}

\* C18 (as claimed): an action in one group-scheduling flow (participant
\* selection, continue, cancel, timeout, confirm) reads, alters and deletes only
\* the pending session data that this flow stored, never that of another flow,
\* a second flow of the same user included.
C18_FlowsShareNothing == InFlow => call.touched \subseteq {call.flow}

-----------------------------------------------------------------------------
(* C19 *)

\* C19 (as claimed): a collector timeout, in whatever stage the flow waits and
\* whether or not the host interacted before, removes the host's entry from
\* global.pendingGroupSessions (its timeout message having been sent).
C19_TimeoutRemovesEntry ==
  (call.fn = "collector end" /\ ~call.failed) =>
    pendingGroupSessions[flows[call.flow].host] = 0

-----------------------------------------------------------------------------
(* The /schedule flows (schedule.js) and createMeeting                     *)
(*                                                                         *)
(* Stages of a flow: "calendar" (the calendar select menu), "showing" (the *)
(* 1 s timer before the details form), "details" (the form is shown),      *)
(* "confirming" (the Confirm / Cancel buttons), and the ended ones.        *)

\* what the details form is filled with: date, start time, duration
FormDates == {4}
\* 10:00 AM, 10:30 AM, numbers out of range, text without a digit
FormTimes == {<<10, 0, "AM">>, <<10, 30, "AM">>, <<25, 0, "PM">>, <<"soon">>}
FormDurations == {0, 30, 60}

\* getUserCalendars: the ids of the calendars of a user
getUserCalendars(userId) == {calendars[i].id : i \in CalendarsOf(userId)}

\* u1 owns two calendars, u2 owns none; no meeting yet
InitSchedule ==
  /\ localOffset = 0
  /\ users = [u \in Users |-> 0]
  /\ calendars = <<[id |-> 1, user_id |-> "u1", availability |-> Business],
                   [id |-> 2, user_id |-> "u1", availability |-> Business]>>
  /\ meetings = {}
  /\ args = [userIds |-> {}, startDate |-> 1, endDate |-> 1, duration |-> 30]
  /\ pc = "idle"
  /\ fetched = <<>>
  /\ availableSlots = <<>>
  /\ call = Idle
  /\ previous = NoCall
  /\ NoFlows
  /\ NoReminders

\* execute: a user without calendars is told to create one; otherwise the
\* calendar select menu is sent and its collector starts
ExecuteSchedule ==
  /\ Len(flows) < MaxFlows
  /\ \E host \in Users :
       flows' = Append(flows, Flow(host, IF getUserCalendars(host) = {} THEN "rejected"
                                         ELSE "calendar"))
  /\ meetingData' = Append(meetingData, NoSession)
  /\ UNCHANGED <<engineVars, call, pendingGroupSessions, sessionData, pendingMeetings>>

\* collector 'collect', customId calendar_select: the meetingData object is
\* created with the calendar id and the timer for the details form is set
SelectCalendar ==
  /\ \E f \in 1..Len(flows) :
       /\ flows[f].stage = "calendar"
       /\ \E selectedCalendarId \in getUserCalendars(flows[f].host) :
            meetingData' = [meetingData EXCEPT ![f] =
                              [calendarId |-> selectedCalendarId, startTime |-> 0,
                               endTime |-> 0]]
       /\ flows' = SetFlow(f, "showing", TRUE, f)
  /\ UNCHANGED <<engineVars, call, pendingGroupSessions, sessionData, pendingMeetings>>

\* collector 'end' of the calendar select: a message, nothing to clean up
CalendarSelectTimeout ==
  /\ \E f \in 1..Len(flows) :
       /\ flows[f].stage = "calendar"
       /\ flows' = SetFlow(f, "timedOut", FALSE, 0)
  /\ UNCHANGED <<engineVars, call, pendingGroupSessions, sessionData, pendingMeetings,
                 meetingData>>

\* showMeetingDetailsForm, run by the timer: the object is stored under the
\* host's id, then followUp and showModal on the replied interaction; whether
\* discord.js shows the form or throws is its affair
ShowMeetingDetailsForm ==
  /\ \E f \in 1..Len(flows), shown \in BOOLEAN :
       /\ flows[f].stage = "showing"
       /\ pendingMeetings' = [pendingMeetings EXCEPT ![flows[f].host] = flows[f].data]
       /\ flows' = SetFlow(f, IF shown THEN "details" ELSE "stalled", TRUE, flows[f].data)
  /\ UNCHANGED <<engineVars, call, pendingGroupSessions, sessionData, meetingData>>

\* processMeetingDetailsForm: the entry of the host is read from the global map;
\* missing entry, invalid date or time, invalid duration end it with a message;
\* otherwise start and end are written into that object and the button
\* collector starts, holding the object
SubmitMeetingDetails ==
  /\ \E f \in 1..Len(flows), dateStr \in FormDates, startTimeStr \in FormTimes,
        duration \in FormDurations :
       /\ flows[f].stage = "details"
       /\ LET timezone == users[flows[f].host]
              entry == pendingMeetings[flows[f].host]
              startDateTime == LocalToInstant(dateStr, startTimeStr, timezone)
          IN  IF entry = 0
              THEN /\ flows' = SetFlow(f, "expired", FALSE, 0)
                   /\ meetingData' = meetingData
              ELSE IF ~ValidTime(startTimeStr) \/ duration <= 0
              THEN /\ flows' = SetFlow(f, "rejected", FALSE, 0)
                   /\ meetingData' = meetingData
              ELSE /\ meetingData' = [meetingData EXCEPT ![entry] =
                                        [calendarId |-> @.calendarId,
                                         startTime |-> startDateTime,
                                         endTime |-> startDateTime + duration]]
                   /\ flows' = [SetFlow(f, "confirming", FALSE, entry) EXCEPT
                                  ![f].entered = [startTimeStr |-> startTimeStr,
                                                  duration |-> duration,
                                                  startDateTime |-> startDateTime,
                                                  endDateTime |-> startDateTime + duration]]
  /\ UNCHANGED <<engineVars, call, pendingGroupSessions, sessionData, pendingMeetings>>

\* createMeeting: the row inserted, status 'confirmed', reminder_sent false
createMeeting(calendarId, startTime, endTime) ==
  [id |-> Cardinality(meetings) + 1, calendar_id |-> calendarId,
   start_time |-> startTime, end_time |-> endTime, status |-> "confirmed",
   reminder_sent |-> FALSE]

\* collector 'collect', customId confirm_meeting: createMeeting with the held
\* object's fields; if it throws, the catch block leaves the entry in place
ConfirmMeeting ==
  /\ \E f \in 1..Len(flows), error \in BOOLEAN :
       /\ flows[f].stage = "confirming"
       /\ IF error
          THEN /\ meetings' = meetings
               /\ pendingMeetings' = pendingMeetings
               /\ flows' = SetFlow(f, "failed", TRUE, flows[f].data)
          ELSE /\ meetings' = meetings \cup
                                {createMeeting(meetingData[flows[f].data].calendarId,
                                               meetingData[flows[f].data].startTime,
                                               meetingData[flows[f].data].endTime)}
               /\ pendingMeetings' = [pendingMeetings EXCEPT ![flows[f].host] = 0]
               /\ flows' = SetFlow(f, "done", TRUE, flows[f].data)
  /\ UNCHANGED <<reminderVars, localOffset, users, calendars, args, pc, fetched, availableSlots, previous,
                 call, pendingGroupSessions, sessionData, meetingData>>

\* collector 'collect', customId cancel_meeting
CancelMeeting ==
  /\ \E f \in 1..Len(flows) :
       /\ flows[f].stage = "confirming"
       /\ pendingMeetings' = [pendingMeetings EXCEPT ![flows[f].host] = 0]
       /\ flows' = SetFlow(f, "cancelled", TRUE, flows[f].data)
  /\ UNCHANGED <<engineVars, call, pendingGroupSessions, sessionData, meetingData>>

\* collector 'end' of the buttons with nothing collected: message, entry deleted
\* (if the followUp did not throw)
ConfirmationTimeout ==
  /\ \E f \in 1..Len(flows), sent \in BOOLEAN :
       /\ flows[f].stage = "confirming"
       /\ IF sent
          THEN pendingMeetings' = [pendingMeetings EXCEPT ![flows[f].host] = 0]
          ELSE pendingMeetings' = pendingMeetings
       /\ flows' = SetFlow(f, "timedOut", FALSE, flows[f].data)
  /\ UNCHANGED <<engineVars, call, pendingGroupSessions, sessionData, meetingData>>

NextSchedule ==
  \/ ExecuteSchedule
  \/ SelectCalendar
  \/ CalendarSelectTimeout
  \/ ShowMeetingDetailsForm
  \/ SubmitMeetingDetails
  \/ ConfirmMeeting
  \/ CancelMeeting
  \/ ConfirmationTimeout

SpecSchedule == InitSchedule /\ [][NextSchedule]_vars

-----------------------------------------------------------------------------
(* C20 *)

\* C20 (as claimed): after any sequence of /schedule flows, no calendar holds
\* two confirmed meetings whose time ranges overlap.
C20_NoOverlappingMeetings ==
  \A m1 \in meetings : \A m2 \in meetings :
    (/\ m1 # m2
     /\ m1.calendar_id = m2.calendar_id
     /\ m1.status = "confirmed" /\ m2.status = "confirmed")
    => ~(m1.start_time < m2.end_time /\ m2.start_time < m1.end_time)

-----------------------------------------------------------------------------
(* C21 *)

\* wall clock of the context that generated the slots: minutes since its local
\* 1970-01-01 00:00
GenerationClock(t) == t + localOffset

\* the pattern's windows reach outside 09:00-17:00
ExtendsOutside(availability) ==
  /\ availability # Null
  /\ \E w \in {availability.weekdays, availability.weekends} :
       /\ HasTimes(w)
       /\ (ClockMinutes(w.start) < dayStartHour * 60 \/ ClockMinutes(w.end) > dayEndHour * 60)

\* C21: every returned slot starts at or after 09:00 and ends at or before
\* 17:00 of the generation context's wall clock, on one date of
\* [startDate, endDate], whatever the owners' windows are: an owner whose window
\* extends outside 09:00-17:00 receives no slot outside it.
C21_BusinessHoursOnly ==
  pc = "returned" =>
    \A slot \in Range(availableSlots) :
      LET s == GenerationClock(slot.start)
          e == GenerationClock(slot.end)
      IN  /\ s \div 1440 \in args.startDate..args.endDate
          /\ e \div 1440 = s \div 1440
          /\ s % 1440 >= dayStartHour * 60
          /\ e % 1440 <= dayEndHour * 60

\* every requested owner's windows reach outside 09:00-17:00, and the last slot
\* returned ends at 17:00
C21_Witness ==
  /\ Completed
  /\ args.userIds # {}
  /\ \A u \in args.userIds : \A i \in CalendarsOf(u) : ExtendsOutside(calendars[i].availability)
  /\ \E slot \in Range(availableSlots) : GenerationClock(slot.end) % 1440 = dayEndHour * 60

-----------------------------------------------------------------------------
(* C22 *)

\* C22 (as claimed): every slot emitted by generateTimeSlots(startDate, endDate,
\* d) is an instant range of the exact requested duration, end = start + d
\* minutes and start < end, for every duration d the function is called with.
C22_ExactDuration ==
  Generated =>
    \A slot \in Range(call.ret) :
      slot.end = slot.start + call.duration /\ slot.start < slot.end

-----------------------------------------------------------------------------
(* C23 *)

\* C23 (as claimed): if the query that fetches the confirmed meetings fails,
\* the call reports the error and returns an empty list instead of throwing:
\* no call ends by throwing (the failure of that query is the one way the call
\* can leave the meetings step other than by returning).
C23_MeetingsErrorReturnsEmpty == pc # "threw"

-----------------------------------------------------------------------------
(* C24 *)

\* C24 (as claimed): every confirmed meeting, on a calendar the call looks at,
\* that overlaps some candidate slot generated for [startDate, endDate] is among
\* the meetings fetched for conflict checking, for every UTC offset of the
\* context in which the slots are generated.
C24_FetchCoversSlots ==
  Completed =>
    \A m \in meetings :
      (/\ m.status = "confirmed"
       /\ \E i \in 1..Len(fetched) : fetched[i].id = m.calendar_id
       /\ \E slot \in Range(TimeSlots) : Overlaps(slot, m))
      => m \in FetchedMeetings

-----------------------------------------------------------------------------
(* C25 *)

\* the slot's end falls on a later local calendar date than its start, in the
\* owner's timezone
CrossesMidnight ==
  LocalDate(call.endTime, call.timezone) > LocalDate(call.startTime, call.timezone)

\* C25 (as claimed): for every pattern and timezone, a slot whose end falls on a
\* later local calendar date than its start, in the owner's timezone, is never
\* within availability (so that findGroupAvailability, which keeps only the
\* slots within every owner's availability, returns no such slot).
C25_CrossingSlotRejected == (Checked /\ CrossesMidnight) => ~call.ret

-----------------------------------------------------------------------------
(* C26 *)

\* C26: if some requested user has no calendar record, the call returns an
\* empty list, whatever the availability and the bookings of the other users.
C26_MissingCalendarNoSlots ==
  (pc = "returned" /\ \E u \in args.userIds : CalendarsOf(u) = {}) =>
    availableSlots = <<>>

\* one requested user has no calendar, the other is free for some candidate
\* slot, and the call ran through both queries and returned nothing
C26_Witness ==
  /\ Completed
  /\ availableSlots = <<>>
  /\ \E u, v \in args.userIds :
       /\ CalendarsOf(u) = {}
       /\ CalendarsOf(v) # {}
       /\ \E slot \in Range(TimeSlots) : UserIsFree(slot, fetched, FetchedMeetings, v)

-----------------------------------------------------------------------------
(* C27 *)

\* C27: for every candidate slot and every booked range that both have
\* start < end, the conflict test gives the same result as plain strict overlap
\* (slot.start < b.end and slot.end > b.start): the same-start and same-end
\* clauses never change the outcome.
C27_ConflictIsOverlap ==
  Completed =>
    \A slot \in Range(TimeSlots) : \A b \in meetings :
      (slot.start < slot.end /\ b.start_time < b.end_time) =>
        (MeetingConflicts(slot, b) <=> Overlaps(slot, b))

\* the call tested slots that share their start, or their end, with a booked
\* range, and slots that abut it
C27_Witness ==
  /\ Completed
  /\ \E b \in FetchedMeetings :
       /\ \E slot \in Range(TimeSlots) : slot.start = b.start_time /\ MeetingConflicts(slot, b)
       /\ \E slot \in Range(TimeSlots) : slot.end = b.end_time /\ MeetingConflicts(slot, b)
       /\ \E slot \in Range(TimeSlots) : slot.end = b.start_time /\ ~MeetingConflicts(slot, b)
       /\ \E slot \in Range(TimeSlots) : slot.start = b.end_time /\ ~MeetingConflicts(slot, b)

-----------------------------------------------------------------------------
(* The /group-schedule flows over a store in which the participants have   *)
(* calendars and a meeting                                                 *)

\* what findGroupAvailability returns when the store answers both queries
findGroupAvailability(userIds, startDate, endDate, duration) ==
  LET rows == CalendarsQuery(userIds)
      calendarIds == {rows[i].id : i \in 1..Len(rows)}
  IN  IF Len(rows) = 0
      THEN <<>>
      ELSE FilterSlots(generateTimeSlots(startDate, endDate, duration), rows,
                       MeetingsQuery(calendarIds, startDate, endDate), userIds)

\* u1 and u2, both in UTC like the process, own one calendar each, open
\* 9:00 AM - 5:00 PM; u1 has a confirmed meeting on Monday 14:00-15:00
InitOffer ==
  /\ localOffset = 0
  /\ users = [u \in Users |-> 0]
  /\ calendars = <<[id |-> 1, user_id |-> "u1", availability |-> Business],
                   [id |-> 2, user_id |-> "u2", availability |-> Business]>>
  /\ meetings = {[calendar_id |-> 1, start_time |-> 4 * 1440 + 14 * 60,
                  end_time |-> 4 * 1440 + 15 * 60, status |-> "confirmed"]}
  /\ args = [userIds |-> {}, startDate |-> 1, endDate |-> 1, duration |-> 30]
  /\ pc = "idle"
  /\ fetched = <<>>
  /\ availableSlots = <<>>
  /\ call = Idle
  /\ previous = NoCall
  /\ NoFlows
  /\ NoReminders

SpecOffer == InitOffer /\ [][NextGroup]_vars

-----------------------------------------------------------------------------
(* C28 *)

\* the date range form was accepted and the time select menu was sent
Offered == call.fn = "processDateRangeForm" /\ ~call.failed

\* the session object of the flow whose handler ran last
CallSession == sessionData[flows[call.flow].data]

\* C28 (as claimed): every time option offered after the date-range step with
\* the description 'All participants available' is a slot that
\* findGroupAvailability returns for the session's participants, date range and
\* duration.
C28_OfferedTimesAreFree ==
  Offered =>
    \A i \in 1..Len(call.options) :
      call.options[i].description = "All participants available" =>
        \E slot \in Range(findGroupAvailability(CallSession.participants, call.startDate,
                                                 call.endDate, CallSession.duration)) :
          /\ slot.formatted.date = call.options[i].date
          /\ slot.formatted.time = call.options[i].time

-----------------------------------------------------------------------------
(* C29 *)

\* the Continue button was handled and found a pending session
Continued == call.fn = "continue_to_scheduling" /\ ~call.failed

\* C29: a flow is on its way to the date-range step (the timer for
\* startGroupScheduling is set, or the date range form is shown) only with a
\* session object whose participant list is not empty; a click on 'Continue to
\* Scheduling' that finds no participant selected leaves the flow collecting
\* participants, and a flow it sent on found some.
C29_NoSchedulingWithoutParticipants ==
  /\ \A f \in 1..Len(flows) :
       flows[f].stage \in {"moving", "dateRange"} =>
         sessionData[flows[f].data].participants # {}
  /\ Continued =>
       (flows[call.flow].stage = "participants"
          <=> \A s \in call.touched : sessionData[s].participants = {})

\* Continue was clicked with no participant selected: the flow still collects
\* participants, its session is still pending and still has none
C29_Witness ==
  /\ Continued
  /\ flows[call.flow].stage = "participants"
  /\ pendingGroupSessions[flows[call.flow].host] = call.flow
  /\ sessionData[call.flow].participants = {}

-----------------------------------------------------------------------------
(* C30 *)

\* the handler that ran last ended its flow through Confirm or through Cancel
Ended == call.fn \in {"confirm_group_session", "cancel_group_session"} /\ ~call.failed

\* C30: when a flow ends through Confirm or through Cancel (in the participant
\* step or in the confirmation step), the host's entry in
\* global.pendingGroupSessions is removed; and a date range form that the host
\* submits while there is no entry is answered with 'session has expired' (or,
\* its dates being invalid, with the message about the dates) and sets no date
\* range.  (processDateRangeForm leaves the map as it found it, so the entry it
\* found is the entry of the state it leaves.)
C30_EndedFlowLeavesNoEntry ==
  /\ Ended => pendingGroupSessions[flows[call.flow].host] = 0
  /\ (call.fn = "processDateRangeForm" /\ pendingGroupSessions[flows[call.flow].host] = 0) =>
       /\ flows[call.flow].stage \in {"expired", "rejected"}
       /\ call.failed
       /\ call.touched = {}

\* a date range form was answered with 'session has expired' after another
\* flow of its host had ended through Cancel or Confirm
C30_Witness ==
  /\ call.fn = "processDateRangeForm"
  /\ flows[call.flow].stage = "expired"
  /\ pendingGroupSessions[flows[call.flow].host] = 0
  /\ \E g \in 1..Len(flows) :
       /\ g # call.flow
       /\ flows[g].host = flows[call.flow].host
       /\ flows[g].stage \in {"cancelled", "done"}

-----------------------------------------------------------------------------
(* C31 *)

\* the meeting that the Confirm of flow f is to create: on the calendar chosen
\* in f, with the start and end entered in f
OwnMeetingOf(f, m) ==
  /\ flows[f].stage = "done"
  /\ m.calendar_id = meetingData[f].calendarId
  /\ m.start_time = flows[f].entered.startDateTime
  /\ m.end_time = flows[f].entered.endDateTime

\* C31 (as claimed): the meeting created on Confirm is created on the calendar
\* chosen in that same flow and carries the start and end entered in that same
\* flow, even when the same user has a second /schedule flow in progress: every
\* meeting of the table is the meeting of a flow that ended by Confirm.
C31_MeetingOfItsOwnFlow ==
  \A m \in meetings : \E f \in 1..Len(flows) : OwnMeetingOf(f, m)

-----------------------------------------------------------------------------
(* C32 *)

\* the flows that ended by Confirm
DoneFlows == {f \in 1..Len(flows) : flows[f].stage = "done"}

\* C32 (as claimed): every meeting created by the /schedule flow has
\* start_time < end_time, end_time - start_time equal to an entered duration,
\* status 'confirmed' and reminder_sent = false; and no meeting is created when
\* the duration is not positive, when the time entered is not a time
\* ("h:mm AM/PM"), when no pending entry exists for the user, or when the flow
\* ends by Cancel or timeout: there are as many meetings as flows ended by
\* Confirm, and each of these flows was given a time and a positive duration.
C32_OnlyValidMeetings ==
  /\ \A m \in meetings :
       /\ m.start_time < m.end_time
       /\ m.end_time - m.start_time \in {d \in FormDurations : d > 0}
       /\ m.status = "confirmed"
       /\ ~m.reminder_sent
  /\ Cardinality(meetings) = Cardinality(DoneFlows)
  /\ \A f \in DoneFlows :
       /\ ~Malformed(flows[f].entered.startTimeStr)
       /\ flows[f].entered.duration > 0

-----------------------------------------------------------------------------
(* C33 *)

\* C33: a rejected form submission of the group-scheduling flow has no side
\* effect.  processGroupSessionDetailsForm, rejecting the duration, creates no
\* session and stores no pending entry; processDateRangeForm, rejecting the
\* dates or finding no pending session, leaves global.pendingGroupSessions and
\* every session object as they were.
C33_RejectedFormChangesNothing ==
  [][/\ (SubmitGroupSessionDetails /\ call'.failed) =>
          /\ pendingGroupSessions' = pendingGroupSessions
          /\ sessionData' = Append(sessionData, NoSession)
     /\ (SubmitDateRange /\ call'.failed) =>
          /\ pendingGroupSessions' = pendingGroupSessions
          /\ sessionData' = sessionData]_vars

\* a date range form was rejected for its dates while the host's session was
\* pending, and stayed pending; another flow was rejected for its duration
C33_Witness ==
  /\ call.fn = "processDateRangeForm"
  /\ call.failed
  /\ flows[call.flow].stage = "rejected"
  /\ pendingGroupSessions[flows[call.flow].host] # 0
  /\ ~sessionData[pendingGroupSessions[flows[call.flow].host]].dated
  /\ \E g \in 1..Len(flows) : flows[g].stage = "rejected" /\ sessionData[g] = NoSession

-----------------------------------------------------------------------------
(* The reminder system: a cron job that runs checkUpcomingMeetings every   *)
(* minute.  A run reads the clock, queries the meetings due within 30      *)
(* minutes, and for each row sends a DM and then marks the row; every      *)
(* await is a point where another run may be started or resumed.           *)

MaxTicks == 3

\* the values the column status admits
MeetingStatuses == {"confirmed", "tentative", "cancelled"}

\* start times of the meeting the runs meet in different positions: within
\* every window, 30 minutes after the first tick, and later still
ReminderStarts == {2, 31, 32}

ReminderWindow == 30

\* a store with one user, one calendar and two meetings; the second one is
\* confirmed, not reminded yet and starts at minute 3
InitReminders ==
  /\ localOffset = 0
  /\ users = [u \in Users |-> 0]
  /\ calendars = <<[id |-> 1, user_id |-> "u1", availability |-> Business]>>
  /\ \E status \in MeetingStatuses, start \in ReminderStarts, sent \in BOOLEAN :
       meetings = {[id |-> 1, calendar_id |-> 1, start_time |-> start,
                    end_time |-> start + 30, status |-> status, reminder_sent |-> sent],
                   [id |-> 2, calendar_id |-> 1, start_time |-> 3,
                    end_time |-> 33, status |-> "confirmed", reminder_sent |-> FALSE]}
  /\ args = [userIds |-> {}, startDate |-> 1, endDate |-> 1, duration |-> 30]
  /\ pc = "idle"
  /\ fetched = <<>>
  /\ availableSlots = <<>>
  /\ call = Idle
  /\ previous = NoCall
  /\ NoFlows
  /\ NoReminders

\* the query with an inclusive upper bound
UpcomingMeetings_Inclusive(table, now) ==
  {m \in table : /\ m.status = "confirmed"
                 /\ m.reminder_sent = FALSE
                 /\ m.start_time >= now
                 /\ m.start_time <= now + ReminderWindow}

\* the rows the query selects: .eq('status', 'confirmed'),
\* .eq('reminder_sent', false), .gte('start_time', now),
\* .lt('start_time', thirtyMinutesFromNow)
UpcomingMeetings(table, now) ==
  {m \in table : /\ m.status = "confirmed"
                 /\ m.reminder_sent = FALSE
                 /\ m.start_time >= now
                 /\ m.start_time < now + ReminderWindow}

\* the orders in which the store may return a set of rows
Orderings(rows) ==
  {q \in [1..Cardinality(rows) -> rows] :
     \A i, j \in 1..Cardinality(rows) : i # j => q[i] # q[j]}

\* a run of checkUpcomingMeetings that has read the clock: `now`, the rows
\* `meetings` it got, the position `i` of its loop; `table` keeps the table
\* as its query saw it
Run(now) ==
  [now |-> now, stage |-> "query", meetings |-> <<>>, i |-> 1, table |-> {}]

\* the loop of run r moves to its next row, or ends
NextMeeting(r) ==
  [runs EXCEPT ![r].i = @ + 1,
               ![r].stage = IF runs[r].i + 1 > Len(runs[r].meetings)
                            THEN "done" ELSE "loop"]

\* a minute passes and the cron job starts a run, whatever the earlier runs
\* are doing; the run reads the clock
CronTick ==
  /\ minute < MaxTicks
  /\ minute' = minute + 1
  /\ runs' = Append(runs, Run(minute + 1))
  /\ UNCHANGED <<localOffset, users, calendars, meetings, args, pc, fetched, availableSlots,
                 previous, call, flowVars, reminders>>

\* the query of a run is answered: on an error the run returns, otherwise it
\* holds the selected rows
QueryUpcomingMeetings ==
  /\ \E r \in 1..Len(runs), error \in BOOLEAN :
       /\ runs[r].stage = "query"
       /\ IF error
          THEN runs' = [runs EXCEPT ![r].stage = "failed"]
          ELSE \E rows \in Orderings(UpcomingMeetings(meetings, runs[r].now)) :
                 runs' = [runs EXCEPT ![r].stage = IF rows = <<>> THEN "done" ELSE "loop",
                                      ![r].meetings = rows,
                                      ![r].table = meetings]
  /\ UNCHANGED <<localOffset, users, calendars, meetings, args, pc, fetched, availableSlots,
                 previous, call, flowVars, minute, reminders>>

\* the DM for the row at hand is sent, or client.users.fetch or user.send
\* throws and the loop goes on with the next row
SendReminder ==
  /\ \E r \in 1..Len(runs), sent \in BOOLEAN :
       /\ runs[r].stage = "loop"
       /\ IF sent
          THEN /\ reminders' = reminders \cup {[id |-> runs[r].meetings[runs[r].i].id,
                                                 run |-> r]}
               /\ runs' = [runs EXCEPT ![r].stage = "update"]
          ELSE /\ reminders' = reminders
               /\ runs' = NextMeeting(r)
  /\ UNCHANGED <<localOffset, users, calendars, meetings, args, pc, fetched, availableSlots,
                 previous, call, flowVars, minute>>

\* the update of the row's reminder_sent is answered; its outcome is not
\* looked at
MarkReminderSent ==
  /\ \E r \in 1..Len(runs), error \in BOOLEAN :
       /\ runs[r].stage = "update"
       /\ meetings' = IF error
                      THEN meetings
                      ELSE {IF m.id = runs[r].meetings[runs[r].i].id
                            THEN [m EXCEPT !.reminder_sent = TRUE] ELSE m : m \in meetings}
       /\ runs' = NextMeeting(r)
  /\ UNCHANGED <<localOffset, users, calendars, args, pc, fetched, availableSlots,
                 previous, call, flowVars, minute, reminders>>

NextReminders ==
  \/ CronTick
  \/ QueryUpcomingMeetings
  \/ SendReminder
  \/ MarkReminderSent

SpecReminders == InitReminders /\ [][NextReminders]_vars

-----------------------------------------------------------------------------
(* C34 *)

\* the reminder DMs delivered for the meeting with this id
RemindersOf(id) == {d \in reminders : d.id = id}

\* C34: each meeting receives at most one reminder DM, whatever the number of
\* cron ticks and however the runs of checkUpcomingMeetings overlap.
C34_AtMostOneReminder ==
  \A m \in meetings : Cardinality(RemindersOf(m.id)) <= 1

-----------------------------------------------------------------------------
(* C35 *)

\* the row with this id as the query of run r saw it
RowAtQuery(r, id) == CHOOSE m \in runs[r].table : m.id = id

\* C35: a reminder DM is sent for a meeting only if, when the query of the
\* run that sent it was answered, the meeting had status 'confirmed' and
\* reminder_sent = false, and its start_time lay in [now, now + 30 minutes)
\* of that run's clock reading; so no tentative or cancelled meeting, and no
\* meeting that had started by then, is reminded.
C35_RemindedOnlyIfDue ==
  \A d \in reminders :
    /\ \E m \in runs[d.run].table : m.id = d.id
    /\ RowAtQuery(d.run, d.id).status = "confirmed"
    /\ RowAtQuery(d.run, d.id).reminder_sent = FALSE
    /\ runs[d.run].now <= RowAtQuery(d.run, d.id).start_time
    /\ RowAtQuery(d.run, d.id).start_time < runs[d.run].now + ReminderWindow

\* a reminder was sent for a meeting that starts 29 minutes after the clock
\* reading of the run, by a run whose query had left out the other meeting
\* (tentative, cancelled, reminded before, started, or 30 minutes away),
\* and one was sent for a meeting starting at the very minute read
C35_Witness ==
  /\ \E d \in reminders :
       /\ RowAtQuery(d.run, d.id).start_time = runs[d.run].now + ReminderWindow - 1
       /\ Len(runs[d.run].meetings) < Cardinality(runs[d.run].table)
  /\ \E d \in reminders : RowAtQuery(d.run, d.id).start_time = runs[d.run].now

====
